---- MODULE Spec2Model ----
(***************************************************************************)
(* Model of Pipe.pipe (open-webui/claude-code.py): the generator that      *)
(* renders the event stream of the Claude Code Server into text fragments. *)
(*                                                                         *)
(* Text is modelled at character level: a string is a sequence of          *)
(* one-character strings.  Four glyphs of the source are code points that  *)
(* are written here as the atoms "ROBOT", "WRENCH", "CROSS", "CHECK",      *)
(* "POO" and "WARN"; each stands for one element of a string.  The bytes   *)
(* that do not decode as UTF-8 are written as the atom "BADBYTE".          *)
(***************************************************************************)
EXTENDS Integers, Sequences, FiniteSets, TLC

VARIABLES status, body, read, produced, buffers, buffer, pending, out, demand, pc,
          messages, request, retval, turn, previous, peer

\* the conversation (messages, turn, previous) and the second invocation
\* (peer), which the steps of one stream leave alone
others == <<messages, turn, previous, peer>>

vars == <<status, body, read, produced, buffers, buffer, pending, out, demand, pc,
          request, retval, others>>

(***************************************************************************)
(* String literals of the source.                                          *)
(***************************************************************************)
DataPrefix == <<"d", "a", "t", "a", ":", " ">>
sType == <<"t", "y", "p", "e">>
sSubtype == <<"s", "u", "b", "t", "y", "p", "e">>
sSystem == <<"s", "y", "s", "t", "e", "m">>
sInit == <<"i", "n", "i", "t">>
sSessionId == <<"s", "e", "s", "s", "i", "o", "n", "_", "i", "d">>
sAssistant == <<"a", "s", "s", "i", "s", "t", "a", "n", "t">>
sMessage == <<"m", "e", "s", "s", "a", "g", "e">>
sContent == <<"c", "o", "n", "t", "e", "n", "t">>
sStopReason == <<"s", "t", "o", "p", "_", "r", "e", "a", "s", "o", "n">>
sEndTurn == <<"e", "n", "d", "_", "t", "u", "r", "n">>
sText == <<"t", "e", "x", "t">>
sToolUse == <<"t", "o", "o", "l", "_", "u", "s", "e">>
sName == <<"n", "a", "m", "e">>
sInput == <<"i", "n", "p", "u", "t">>
sUser == <<"u", "s", "e", "r">>
sToolResult == <<"t", "o", "o", "l", "_", "r", "e", "s", "u", "l", "t">>
sIsError == <<"i", "s", "_", "e", "r", "r", "o", "r">>
sResult == <<"r", "e", "s", "u", "l", "t">>
sError == <<"e", "r", "r", "o", "r">>
sUnknown == <<"U", "n", "k", "n", "o", "w", "n">>
sUnknownError == <<"U", "n", "k", "n", "o", "w", "n", " ", "e", "r", "r", "o", "r">>
sTrue == <<"T", "r", "u", "e">>
sFalse == <<"F", "a", "l", "s", "e">>
sNone == <<"N", "o", "n", "e">>
SessionTag == <<"s", "e", "s", "s", "i", "o", "n", "_", "i", "d", "=">>
ThinkingOpen == <<"<", "t", "h", "i", "n", "k", "i", "n", "g", ">", "\n">>
ThinkingClose == <<"\n", "<", "/", "t", "h", "i", "n", "k", "i", "n", "g", ">", "\n">>
TruncMarker == <<".", ".", ".", "(", "t", "r", "u", "n", "c", "a", "t", "e", "d", ")">>
sUsing == <<" ", "U", "s", "i", "n", "g", " ">>
sToolErrorLabel == <<" ", "T", "o", "o", "l", " ", "E", "r", "r", "o", "r", ":", " ">>
sToolResultLabel == <<" ", "T", "o", "o", "l", " ", "R", "e", "s", "u", "l", "t", ":", " ">>
StatusMessage == <<"W", "o", "r", "k", "f", "l", "o", "w", " ", "r", "e", "q", "u", "e", "s", "t", " ", "f", "a", "i", "l", "e", "d", " ", "w", "i", "t", "h", " ", "s", "t", "a", "t", "u", "s", " ", "c", "o", "d", "e", ":", " ">>
sDash == <<" ", "-", " ">>
jTrue == <<"t", "r", "u", "e">>
jFalse == <<"f", "a", "l", "s", "e">>
jNull == <<"n", "u", "l", "l">>

(***************************************************************************)
(* JSON values, as json.loads returns them.  A value is a record with a    *)
(* kind k and a payload v: a string holds its characters, a number the     *)
(* characters of its literal, an array its items, an object (a dict, which *)
(* keeps insertion order) its <<key, value>> pairs.                        *)
(***************************************************************************)
JStr(cs) == [k |-> "str", v |-> cs]

JNum(ds) == [k |-> "num", v |-> ds]

JTrue == [k |-> "true", v |-> <<>>]

JFalse == [k |-> "false", v |-> <<>>]

JNull == [k |-> "null", v |-> <<>>]

JArr(items) == [k |-> "arr", v |-> items]

JObj(pairs) == [k |-> "obj", v |-> pairs]

Digits == {"0", "1", "2", "3", "4", "5", "6", "7", "8", "9"}

JsonWs == {" ", "\t"}

Min(S) == CHOOSE x \in S : \A y \in S : x <= y

\* dict[key] = val: an existing key keeps its place and takes the new value
ObjSet(pairs, key, val) ==
    IF \E i \in 1..Len(pairs) : pairs[i][1] = key
    THEN [i \in 1..Len(pairs) |-> IF pairs[i][1] = key THEN <<key, val>> ELSE pairs[i]]
    ELSE Append(pairs, <<key, val>>)

Parsed(val, next) == [ok |-> TRUE, val |-> val, pos |-> next]

NoParse == [ok |-> FALSE, val |-> JNull, pos |-> 0]

RECURSIVE SkipWs(_, _)
SkipWs(s, p) == IF p <= Len(s) /\ s[p] \in JsonWs THEN SkipWs(s, p + 1) ELSE p

RECURSIVE DigitsEnd(_, _)
DigitsEnd(s, p) == IF p <= Len(s) /\ s[p] \in Digits THEN DigitsEnd(s, p + 1) ELSE p

StartsAt(s, p, lit) == p + Len(lit) - 1 <= Len(s) /\ SubSeq(s, p, p + Len(lit) - 1) = lit

\* a string literal opening at s[p]; the inputs of the model hold no escape
\* sequence, so the literal ends at the next quotation mark
ParseString(s, p) ==
    LET closing == {i \in (p + 1)..Len(s) : s[i] = "\""}
    IN  IF closing = {} THEN NoParse
        ELSE Parsed(JStr(SubSeq(s, p + 1, Min(closing) - 1)), Min(closing) + 1)

\* an integer literal: an optional minus sign, then 0 or a run of digits
\* that does not start with 0
ParseNumber(s, p) ==
    LET d == IF s[p] = "-" THEN p + 1 ELSE p
        e == IF d <= Len(s) /\ s[d] = "0" THEN d + 1 ELSE DigitsEnd(s, d)
    IN  IF e = d THEN NoParse ELSE Parsed(JNum(SubSeq(s, p, e - 1)), e)

RECURSIVE ParseValue(_, _), ParseMembers(_, _, _), ParseElements(_, _, _)
ParseValue(s, p0) ==
    LET p == SkipWs(s, p0)
    IN  IF p > Len(s) THEN NoParse
        ELSE IF s[p] = "{"
        THEN LET q == SkipWs(s, p + 1)
             IN  IF q <= Len(s) /\ s[q] = "}" THEN Parsed(JObj(<<>>), q + 1)
                 ELSE ParseMembers(s, q, <<>>)
        ELSE IF s[p] = "["
        THEN LET q == SkipWs(s, p + 1)
             IN  IF q <= Len(s) /\ s[q] = "]" THEN Parsed(JArr(<<>>), q + 1)
                 ELSE ParseElements(s, q, <<>>)
        ELSE IF s[p] = "\"" THEN ParseString(s, p)
        ELSE IF s[p] = "-" \/ s[p] \in Digits THEN ParseNumber(s, p)
        ELSE IF StartsAt(s, p, jTrue) THEN Parsed(JTrue, p + Len(jTrue))
        ELSE IF StartsAt(s, p, jFalse) THEN Parsed(JFalse, p + Len(jFalse))
        ELSE IF StartsAt(s, p, jNull) THEN Parsed(JNull, p + Len(jNull))
        ELSE NoParse

\* the members of an object from its next key at s[p] to the closing brace
ParseMembers(s, p, acc) ==
    LET key == IF p <= Len(s) /\ s[p] = "\"" THEN ParseString(s, p) ELSE NoParse
        c   == SkipWs(s, key.pos)
        val == IF key.ok /\ c <= Len(s) /\ s[c] = ":" THEN ParseValue(s, c + 1) ELSE NoParse
        e   == SkipWs(s, val.pos)
    IN  IF ~val.ok \/ e > Len(s) THEN NoParse
        ELSE IF s[e] = "}" THEN Parsed(JObj(ObjSet(acc, key.val.v, val.val)), e + 1)
        ELSE IF s[e] = "," THEN ParseMembers(s, SkipWs(s, e + 1), ObjSet(acc, key.val.v, val.val))
        ELSE NoParse

\* the items of an array from its next item at s[p] to the closing bracket
ParseElements(s, p, acc) ==
    LET val == ParseValue(s, p)
        e   == SkipWs(s, val.pos)
    IN  IF ~val.ok \/ e > Len(s) THEN NoParse
        ELSE IF s[e] = "]" THEN Parsed(JArr(Append(acc, val.val)), e + 1)
        ELSE IF s[e] = "," THEN ParseElements(s, e + 1, Append(acc, val.val))
        ELSE NoParse

\* json.loads(s): one value, with nothing but white space around it; a
\* failure is the JSONDecodeError the caller sees
Whole(s, r) ==
    IF r.ok /\ SkipWs(s, r.pos) > Len(s) THEN [ok |-> TRUE, val |-> r.val]
    ELSE [ok |-> FALSE, val |-> JNull]

Loads(s) == Whole(s, ParseValue(s, 1))

(***************************************************************************)
(* Python's view of a decoded value: str(), repr(), truth, and dict.get.   *)
(***************************************************************************)
RECURSIVE Repr(_), ReprItems(_, _), ReprPairs(_, _)
\* repr(v); the strings of the model hold no quotation mark, so a string is
\* written between apostrophes
Repr(v) ==
    CASE v.k = "str" -> <<"'">> \o v.v \o <<"'">>
      [] v.k = "num" -> v.v
      [] v.k = "true" -> sTrue
      [] v.k = "false" -> sFalse
      [] v.k = "null" -> sNone
      [] v.k = "arr" -> <<"[">> \o ReprItems(v.v, 1) \o <<"]">>
      [] v.k = "obj" -> <<"{">> \o ReprPairs(v.v, 1) \o <<"}">>

ReprItems(items, i) ==
    IF i > Len(items) THEN <<>>
    ELSE (IF i > 1 THEN <<",", " ">> ELSE <<>>) \o Repr(items[i]) \o ReprItems(items, i + 1)

ReprPairs(pairs, i) ==
    IF i > Len(pairs) THEN <<>>
    ELSE (IF i > 1 THEN <<",", " ">> ELSE <<>>) \o <<"'">> \o pairs[i][1] \o <<"'", ":", " ">>
         \o Repr(pairs[i][2]) \o ReprPairs(pairs, i + 1)

\* str(v), which is also what an f-string field {v} renders
Str(v) == IF v.k = "str" THEN v.v ELSE Repr(v)

\* bool(v)
Truthy(v) ==
    CASE v.k \in {"str", "arr", "obj"} -> v.v # <<>>
      [] v.k = "num" -> v.v \notin {<<"0">>, <<"-", "0">>}
      [] v.k = "true" -> TRUE
      [] v.k \in {"false", "null"} -> FALSE

HasKey(obj, key) == \E i \in 1..Len(obj.v) : obj.v[i][1] = key

\* obj.get(key, default) of a dict obj
Get(obj, key, default) ==
    IF HasKey(obj, key) THEN obj.v[CHOOSE i \in 1..Len(obj.v) : obj.v[i][1] = key][2]
    ELSE default

(***************************************************************************)
(* The renderer: what the body of the `for line in response.iter_lines()`  *)
(* loop does with one line.                                                *)
(***************************************************************************)
TruncLimit == 500

StartsWith(s, prefix) == Len(s) >= Len(prefix) /\ SubSeq(s, 1, Len(prefix)) = prefix

\* s.replace(old, ""): every occurrence of old, leftmost first, is removed
RECURSIVE Replace(_, _)
Replace(s, old) ==
    LET occ == {i \in 1..(Len(s) - Len(old) + 1) : SubSeq(s, i, i + Len(old) - 1) = old}
    IN  IF occ = {} THEN s
        ELSE SubSeq(s, 1, Min(occ) - 1) \o Replace(SubSeq(s, Min(occ) + Len(old), Len(s)), old)

\* line.decode("utf-8") succeeds
Decodable(line) == \A i \in 1..Len(line) : line[i] # "BADBYTE"

PyWs == {" ", "\t", "\r"}

\* line_text.strip() is empty
IsBlank(s) == \A i \in 1..Len(s) : s[i] \in PyWs

\* Truncate without the cut
TruncateNever(text) == text

\* the 500-character cut every branch of the dispatch that truncates applies
Truncate(text) ==
    IF Len(text) > TruncLimit THEN SubSeq(text, 1, TruncLimit) \o TruncMarker ELSE text

\* The outcome of running a piece of the loop body: the fragments it
\* yielded, in order, and the class of the exception it raised ("none" when
\* it ran to its end).  The message of an exception is written as one atom
\* naming its class.
Ok(frags) == [frags |-> frags, exc |-> "none"]

Raise(frags, e) == [frags |-> frags, exc |-> e]

IsStr(v, cs) == v.k = "str" /\ v.v = cs

\* len(v) > 500 followed by v[:500] + "...(truncated)" or by v itself, as
\* the thinking-text and tool-result branches do on a decoded value
TruncateValue(v) ==
    IF v.k \notin {"str", "arr", "obj"} THEN Raise(<<>>, "TypeError")
    ELSE IF Len(v.v) > TruncLimit
         THEN IF v.k = "str" THEN Ok(SubSeq(v.v, 1, TruncLimit) \o TruncMarker)
              ELSE Raise(<<>>, "TypeError")
         ELSE Ok(Str(v))

\* `for item in content`: the items a value yields, or TypeError
Iterate(v) ==
    CASE v.k = "arr" -> Ok(v.v)
      [] v.k = "str" -> Ok([i \in 1..Len(v.v) |-> JStr(<<v.v[i]>>)])
      [] v.k = "obj" -> Ok([i \in 1..Len(v.v) |-> JStr(v.v[i][1])])
      [] OTHER -> Raise(<<>>, "TypeError")

FinalText(text) == <<"\n">> \o text

ThinkingText(text) == <<"\n", "ROBOT", "<", " ">> \o text

ToolUseText(name, input) == <<"\n", "WRENCH">> \o sUsing \o name \o <<":", " ">> \o input \o <<"\n">>

ToolErrorText(text) == <<"\n", "CROSS">> \o sToolErrorLabel \o text \o <<"\n">>

ToolResultText(text) == <<"\n", "CHECK">> \o sToolResultLabel \o text \o <<"\n">>

ErrorText(text) == <<"\\", "WARN", " ">> \o text \o <<"\n">>

FallbackText(text) == <<"\n", "POO", " ">> \o text \o <<"\n">>

WarningText(text) == <<"\n", "WARN", " ">> \o text \o <<"\n">>

\* the thinking branch of a text item, given the cut of its text
ThinkingItem(cut) == IF cut.exc # "none" THEN cut ELSE Ok(<<ThinkingText(cut.frags)>>)

\* the success branch of a tool_result item, given the cut of its content
ToolResultItem(cut) == IF cut.exc # "none" THEN cut ELSE Ok(<<ToolResultText(cut.frags)>>)

\* one content item of an assistant message
AssistantItem(item, is_final_response) ==
    IF item.k # "obj" THEN Raise(<<>>, "AttributeError")
    ELSE IF IsStr(Get(item, sType, JNull), sText)
    THEN IF is_final_response THEN Ok(<<FinalText(Str(Get(item, sText, JStr(<<>>))))>>)
         ELSE ThinkingItem(TruncateValue(Get(item, sText, JStr(<<>>))))
    ELSE IF IsStr(Get(item, sType, JNull), sToolUse)
    THEN Ok(<<ToolUseText(Str(Get(item, sName, JStr(sUnknown))),
                          Truncate(Str(Get(item, sInput, JObj(<<>>)))))>>)
    ELSE Ok(<<>>)

\* one content item of a user message
UserItem(item) ==
    IF item.k # "obj" THEN Raise(<<>>, "AttributeError")
    ELSE IF IsStr(Get(item, sType, JNull), sToolResult)
    THEN IF Truthy(Get(item, sIsError, JFalse))
         THEN Ok(<<ToolErrorText(Str(Get(item, sContent, JStr(<<>>))))>>)
         ELSE ToolResultItem(TruncateValue(Get(item, sContent, JStr(<<>>))))
    ELSE Ok(<<>>)

\* the fragments `before`, then the outcome r of what runs next
Then(before, r) == [frags |-> before \o r.frags, exc |-> r.exc]

\* the loops over the content items: an exception ends the loop and keeps
\* the fragments yielded before it
RECURSIVE AssistantItems(_, _, _), AssistantRest(_, _, _, _)
AssistantItems(items, i, is_final_response) ==
    IF i > Len(items) THEN Ok(<<>>)
    ELSE AssistantRest(AssistantItem(items[i], is_final_response), items, i, is_final_response)

AssistantRest(r, items, i, is_final_response) ==
    IF r.exc # "none" THEN r ELSE Then(r.frags, AssistantItems(items, i + 1, is_final_response))

RECURSIVE UserItems(_, _), UserRest(_, _, _)
UserItems(items, i) ==
    IF i > Len(items) THEN Ok(<<>>) ELSE UserRest(UserItem(items[i]), items, i)

UserRest(r, items, i) ==
    IF r.exc # "none" THEN r ELSE Then(r.frags, UserItems(items, i + 1))

\* DispatchInit with the two yields in the other order
DispatchInitOpenFirst(json_data) ==
    IF Truthy(Get(json_data, sSessionId, JNull))
    THEN Ok(<<ThinkingOpen, SessionTag \o Str(Get(json_data, sSessionId, JNull)) \o <<"\n">>>>)
    ELSE Ok(<<>>)

DispatchInit(json_data) ==
    LET session_id_from_system == Get(json_data, sSessionId, JNull)
    IN  IF Truthy(session_id_from_system)
        THEN Ok(<<SessionTag \o Str(session_id_from_system) \o <<"\n">>, ThinkingOpen>>)
        ELSE Ok(<<>>)

\* AssistantContent with the closing marker yielded after the items
AssistantContentCloseLast(closing, items, is_final_response) ==
    IF items.exc # "none" THEN Raise(closing, items.exc)
    ELSE Then(AssistantItems(items.frags, 1, is_final_response).frags,
              [frags |-> closing, exc |-> AssistantItems(items.frags, 1, is_final_response).exc])

\* the assistant branch from `if is_final_response:` on, given the items
\* that `for item in content` yields
AssistantContent(closing, items, is_final_response) ==
    IF items.exc # "none" THEN Raise(closing, items.exc)
    ELSE Then(closing, AssistantItems(items.frags, 1, is_final_response))

DispatchAssistant(json_data) ==
    LET message == Get(json_data, sMessage, JObj(<<>>))
        content == Get(message, sContent, JArr(<<>>))
        is_final_response == IsStr(Get(message, sStopReason, JNull), sEndTurn)
    IN  IF message.k # "obj" THEN Raise(<<>>, "AttributeError")
        ELSE AssistantContent(IF is_final_response THEN <<ThinkingClose>> ELSE <<>>,
                              Iterate(content), is_final_response)

UserContent(items) == IF items.exc # "none" THEN items ELSE UserItems(items.frags, 1)

DispatchUser(json_data) ==
    LET message == Get(json_data, sMessage, JObj(<<>>))
        content == Get(message, sContent, JArr(<<>>))
    IN  IF message.k # "obj" THEN Raise(<<>>, "AttributeError")
        ELSE UserContent(Iterate(content))

DispatchError(json_data) ==
    LET error_message == Get(json_data, sError, JStr(sUnknownError))
    IN  Ok(<<ThinkingClose, ErrorText(Truncate(Str(error_message)))>>)

\* DispatchOther raising on the type it does not know
DispatchOtherRaises(json_data) == Raise(<<>>, "KeyError")

DispatchOther(json_data) == Ok(<<FallbackText(Truncate(Str(json_data)))>>)

\* the if/elif chain on json_data.get("type")
Dispatch(json_data) ==
    IF json_data.k # "obj" THEN Raise(<<>>, "AttributeError")
    ELSE IF IsStr(Get(json_data, sType, JNull), sSystem)
              /\ IsStr(Get(json_data, sSubtype, JNull), sInit)
        THEN DispatchInit(json_data)
    ELSE IF IsStr(Get(json_data, sType, JNull), sAssistant) THEN DispatchAssistant(json_data)
    ELSE IF IsStr(Get(json_data, sType, JNull), sUser) THEN DispatchUser(json_data)
    ELSE IF IsStr(Get(json_data, sType, JNull), sResult) THEN Ok(<<>>)
    ELSE IF IsStr(Get(json_data, sType, JNull), sError) THEN DispatchError(json_data)
    ELSE DispatchOther(json_data)

\* Caught for `except json.JSONDecodeError`: any other exception leaves the
\* loop
CaughtDecodeOnly(r) ==
    IF r.exc = "none" THEN [buffer |-> r.buffer, frags |-> r.frags, escaped |-> "none"]
    ELSE IF r.exc = "JSONDecodeError"
    THEN [buffer |-> r.buffer, frags |-> Append(r.frags, WarningText(<<r.exc>>)),
          escaped |-> "none"]
    ELSE [buffer |-> r.buffer, frags |-> r.frags, escaped |-> r.exc]

\* Caught for `except Exception: continue`, without the yield
CaughtSilent(r) == [buffer |-> r.buffer, frags |-> r.frags, escaped |-> "none"]

\* The except clause, given the outcome r of the try block: `except
\* Exception` catches every exception the block can raise, yields one
\* warning fragment after the fragments already yielded, and lets nothing
\* leave the loop.
Caught(r) ==
    IF r.exc = "none" THEN [buffer |-> r.buffer, frags |-> r.frags, escaped |-> "none"]
    ELSE [buffer |-> r.buffer, frags |-> Append(r.frags, WarningText(<<r.exc>>)),
          escaped |-> "none"]

\* StrayLine without the test of line_text.strip()
StrayLineNoBlankCheck(line_text) == <<FallbackText(Truncate(line_text))>>

StrayLine(line_text) ==
    IF IsBlank(line_text) THEN <<>> ELSE <<FallbackText(Truncate(line_text))>>

\* json_str of a `data: ` line
JsonStr(line_text) == Replace(line_text, DataPrefix)

\* `buffer = ""` and the dispatch, given its outcome r
Dispatched(r) == [buffer |-> <<>>, frags |-> r.frags, exc |-> r.exc]

\* DataLine with a give-up policy: a buffer that does not parse is dropped
DataLineGiveUp(appended, json_data) ==
    IF json_data.ok THEN Dispatched(Dispatch(json_data.val))
    ELSE [buffer |-> <<>>, frags |-> <<>>, exc |-> "JSONDecodeError"]

\* DataLine with `buffer = ""` after the dispatch: a dispatch that raises
\* leaves the parsed text in the buffer
DataLineClearLast(appended, json_data) ==
    IF json_data.ok
    THEN [buffer |-> IF Dispatch(json_data.val).exc = "none" THEN <<>> ELSE appended,
          frags |-> Dispatch(json_data.val).frags,
          exc |-> Dispatch(json_data.val).exc]
    ELSE [buffer |-> appended, frags |-> <<>>, exc |-> "JSONDecodeError"]

\* the `data: ` branch after `buffer += json_str`, given what json.loads
\* made of the buffer
DataLine(appended, json_data) ==
    IF json_data.ok THEN Dispatched(Dispatch(json_data.val))
    ELSE [buffer |-> appended, frags |-> <<>>, exc |-> "JSONDecodeError"]

Appended(appended) == DataLine(appended, Loads(appended))

\* The try block on a non-empty line with the buffer buf: the buffer it
\* leaves, the fragments it yields and the exception that ends it.
TryBlock(buf, line) ==
    IF ~Decodable(line) THEN [buffer |-> buf, frags |-> <<>>, exc |-> "UnicodeDecodeError"]
    ELSE IF StartsWith(line, DataPrefix) THEN Appended(buf \o JsonStr(line))
    ELSE [buffer |-> buf, frags |-> StrayLine(line), exc |-> "none"]

\* One pass of the loop body: `if line:` skips an empty line, and the
\* try/except runs on any other.
HandleLine(buf, line) ==
    IF line = <<>> THEN [buffer |-> buf, frags |-> <<>>, escaped |-> "none"]
    ELSE Caught(TryBlock(buf, line))

(***************************************************************************)
(* The head of Pipe.pipe: the session id it takes from the conversation    *)
(* history and the request it posts.  A message is a record with a role    *)
(* and a content; of the request only the session_id entry is modelled.    *)
(***************************************************************************)
SessionPattern == <<"s", "e", "s", "s", "i", "o", "n", "_", "i", "d", "=">>
ErrorNoMessages == <<"E", "r", "r", "o", "r", ":", " ", "N", "o", " ", "m", "e", "s", "s", "a", "g", "e", "s", " ", "p", "r", "o", "v", "i", "d", "e", "d">>

\* the class [a-f0-9-] of the pattern
IdChars == {"a", "b", "c", "d", "e", "f", "-"} \cup Digits

RECURSIVE IdEnd(_, _)
IdEnd(s, p) == IF p <= Len(s) /\ s[p] \in IdChars THEN IdEnd(s, p + 1) ELSE p

\* session_id = None
NoSessionId == <<>>

\* re.search(r'session_id=([a-f0-9-]+)', text): group(1) of the leftmost
\* match, the longest run of the class after the tag
SessionMatch(text) ==
    LET starts == {p \in 1..Len(text) :
                      /\ StartsAt(text, p, SessionPattern)
                      /\ p + Len(SessionPattern) <= Len(text)
                      /\ text[p + Len(SessionPattern)] \in IdChars}
    IN  IF starts = {} THEN NoSessionId
        ELSE SubSeq(text, Min(starts) + Len(SessionPattern),
                    IdEnd(text, Min(starts) + Len(SessionPattern)) - 1)

\* the loop from len(messages) - 2 down to 0: it stops at the first
\* assistant message it meets, with or without a match
RECURSIVE ScanBack(_, _)
ScanBack(msgs, i) ==
    IF i < 1 THEN NoSessionId
    ELSE IF msgs[i].role = "assistant" THEN SessionMatch(msgs[i].content)
    ELSE ScanBack(msgs, i - 1)

SessionIdOf(msgs) == ScanBack(msgs, Len(msgs) - 1)

\* no request has been posted
NotSent == [sent |-> FALSE, has_session_id |-> FALSE, session_id |-> NoSessionId]

\* data, as posted: the session_id entry is set when the id is truthy
Posted(sid) == [sent |-> TRUE, has_session_id |-> sid # <<>>, session_id |-> sid]

Data(msgs) == Posted(SessionIdOf(msgs))

\* the text the caller stores as the assistant's reply: the fragments, joined
RECURSIVE Flatten(_)
Flatten(ss) == IF ss = <<>> THEN <<>> ELSE Head(ss) \o Flatten(Tail(ss))

UserMessage(text) == [role |-> "user", content |-> text]

AssistantMessage(text) == [role |-> "assistant", content |-> text]

(***************************************************************************)
(* The non-200 branch.                                                     *)
(***************************************************************************)
DigitChar == <<"0", "1", "2", "3", "4", "5", "6", "7", "8", "9">>

\* str(n) of a natural number
RECURSIVE Decimal(_)
Decimal(n) == IF n < 10 THEN <<DigitChar[n + 1]>> ELSE Decimal(n \div 10) \o <<DigitChar[(n % 10) + 1]>>

\* FailureMessage without the body's error field
FailureMessageStatusOnly(status_code, text) == StatusMessage \o Decimal(status_code)

\* The message of the else branch.  response.json() raising, `"error" in
\* error_data` raising or being false, and error_data['error'] raising all
\* leave the message as it is (the bare except); only a dict with the key
\* gets the suffix.
FailureMessage(status_code, text) ==
    LET error_data == Loads(text)
    IN  StatusMessage \o Decimal(status_code)
          \o (IF error_data.ok /\ error_data.val.k = "obj" /\ HasKey(error_data.val, sError)
              THEN sDash \o Str(Get(error_data.val, sError, JNull))
              ELSE <<>>)

(***************************************************************************)
(* The responses of the server the model draws from.                       *)
(***************************************************************************)
pInit == <<"{", "\"", "t", "y", "p", "e", "\"", ":", "\"", "s", "y", "s", "t", "e", "m", "\"", ",", "\"", "s", "u", "b", "t", "y", "p", "e", "\"", ":", "\"", "i", "n", "i", "t", "\"", ",", "\"", "s", "e", "s", "s", "i", "o", "n", "_", "i", "d", "\"", ":", "\"", "a", "b", "-", "1", "\"", "}">>
pInitNoId == <<"{", "\"", "t", "y", "p", "e", "\"", ":", "\"", "s", "y", "s", "t", "e", "m", "\"", ",", "\"", "s", "u", "b", "t", "y", "p", "e", "\"", ":", "\"", "i", "n", "i", "t", "\"", "}">>
pThinking == <<"{", "\"", "t", "y", "p", "e", "\"", ":", "\"", "a", "s", "s", "i", "s", "t", "a", "n", "t", "\"", ",", "\"", "m", "e", "s", "s", "a", "g", "e", "\"", ":", "{", "\"", "c", "o", "n", "t", "e", "n", "t", "\"", ":", "[", "{", "\"", "t", "y", "p", "e", "\"", ":", "\"", "t", "e", "x", "t", "\"", ",", "\"", "t", "e", "x", "t", "\"", ":", "\"", "h", "m", "\"", "}", ",", "{", "\"", "t", "y", "p", "e", "\"", ":", "\"", "t", "o", "o", "l", "_", "u", "s", "e", "\"", ",", "\"", "n", "a", "m", "e", "\"", ":", "\"", "l", "s", "\"", ",", "\"", "i", "n", "p", "u", "t", "\"", ":", "{", "\"", "p", "\"", ":", "1", "}", "}", "]", "}", "}">>
pFinal == <<"{", "\"", "t", "y", "p", "e", "\"", ":", "\"", "a", "s", "s", "i", "s", "t", "a", "n", "t", "\"", ",", "\"", "m", "e", "s", "s", "a", "g", "e", "\"", ":", "{", "\"", "s", "t", "o", "p", "_", "r", "e", "a", "s", "o", "n", "\"", ":", "\"", "e", "n", "d", "_", "t", "u", "r", "n", "\"", ",", "\"", "c", "o", "n", "t", "e", "n", "t", "\"", ":", "[", "{", "\"", "t", "y", "p", "e", "\"", ":", "\"", "t", "e", "x", "t", "\"", ",", "\"", "t", "e", "x", "t", "\"", ":", "\"", "o", "k", "\"", "}", "]", "}", "}">>
pToolResult == <<"{", "\"", "t", "y", "p", "e", "\"", ":", "\"", "u", "s", "e", "r", "\"", ",", "\"", "m", "e", "s", "s", "a", "g", "e", "\"", ":", "{", "\"", "c", "o", "n", "t", "e", "n", "t", "\"", ":", "[", "{", "\"", "t", "y", "p", "e", "\"", ":", "\"", "t", "o", "o", "l", "_", "r", "e", "s", "u", "l", "t", "\"", ",", "\"", "c", "o", "n", "t", "e", "n", "t", "\"", ":", "\"", "r", "\"", "}", "]", "}", "}">>
pToolError == <<"{", "\"", "t", "y", "p", "e", "\"", ":", "\"", "u", "s", "e", "r", "\"", ",", "\"", "m", "e", "s", "s", "a", "g", "e", "\"", ":", "{", "\"", "c", "o", "n", "t", "e", "n", "t", "\"", ":", "[", "{", "\"", "t", "y", "p", "e", "\"", ":", "\"", "t", "o", "o", "l", "_", "r", "e", "s", "u", "l", "t", "\"", ",", "\"", "c", "o", "n", "t", "e", "n", "t", "\"", ":", "\"", "n", "o", "\"", ",", "\"", "i", "s", "_", "e", "r", "r", "o", "r", "\"", ":", "t", "r", "u", "e", "}", "]", "}", "}">>
pResult == <<"{", "\"", "t", "y", "p", "e", "\"", ":", "\"", "r", "e", "s", "u", "l", "t", "\"", ",", "\"", "r", "e", "s", "u", "l", "t", "\"", ":", "\"", "o", "k", "\"", "}">>
pError == <<"{", "\"", "t", "y", "p", "e", "\"", ":", "\"", "e", "r", "r", "o", "r", "\"", ",", "\"", "e", "r", "r", "o", "r", "\"", ":", "\"", "b", "o", "o", "m", "\"", "}">>
pPing == <<"{", "\"", "t", "y", "p", "e", "\"", ":", "\"", "p", "i", "n", "g", "\"", "}">>
pPartial == <<"{", "\"", "t", "y", "p", "e", "\"", ":">>
pNumber == <<"5">>
pBadItem == <<"{", "\"", "t", "y", "p", "e", "\"", ":", "\"", "a", "s", "s", "i", "s", "t", "a", "n", "t", "\"", ",", "\"", "m", "e", "s", "s", "a", "g", "e", "\"", ":", "{", "\"", "c", "o", "n", "t", "e", "n", "t", "\"", ":", "[", "{", "\"", "t", "y", "p", "e", "\"", ":", "\"", "t", "e", "x", "t", "\"", ",", "\"", "t", "e", "x", "t", "\"", ":", "\"", "a", "\"", "}", ",", "7", "]", "}", "}">>
lKeepalive == <<"k", "e", "e", "p", "a", "l", "i", "v", "e">>
lBlank == <<" ", " ">>
bErrorObject == <<"{", "\"", "e", "r", "r", "o", "r", "\"", ":", "\"", "b", "a", "d", " ", "r", "e", "q", "u", "e", "s", "t", "\"", "}">>
bNoErrorField == <<"{", "\"", "d", "e", "t", "a", "i", "l", "\"", ":", "\"", "x", "\"", "}">>
bNotJson == <<"<", "h", "t", "m", "l", ">">>
bErrorString == <<"\"", "a", "n", " ", "e", "r", "r", "o", "r", "\"">>
bErrorList == <<"[", "\"", "e", "r", "r", "o", "r", "\"", "]">>

pPingRest == <<"\"", "p", "i", "n", "g", "\"", "}">>
pNoContent == <<"{", "\"", "t", "y", "p", "e", "\"", ":", "\"", "u", "s", "e", "r", "\"", ",", "\"", "m", "e", "s", "s", "a", "g", "e", "\"", ":", "{", "}", "}">>
pDataError == <<"{", "\"", "t", "y", "p", "e", "\"", ":", "\"", "e", "r", "r", "o", "r", "\"", ",", "\"", "e", "r", "r", "o", "r", "\"", ":", "\"", "n", "o", " ", "d", "a", "t", "a", ":", " ", "x", "\"", "}">>
lBarePing == <<"{", "\"", "t", "y", "p", "e", "\"", ":", "\"", "p", "i", "n", "g", "\"", "}">>
aThinking == <<"{", "\"", "t", "y", "p", "e", "\"", ":", "\"", "a", "s", "s", "i", "s", "t", "a", "n", "t", "\"", ",", "\"", "m", "e", "s", "s", "a", "g", "e", "\"", ":", "{", "\"", "c", "o", "n", "t", "e", "n", "t", "\"", ":", "[", "{", "\"", "t", "y", "p", "e", "\"", ":", "\"", "t", "e", "x", "t", "\"", ",", "\"", "t", "e", "x", "t", "\"", ":", "\"">>
zThinking == <<"\"", "}", "]", "}", "}">>
aFinal == <<"{", "\"", "t", "y", "p", "e", "\"", ":", "\"", "a", "s", "s", "i", "s", "t", "a", "n", "t", "\"", ",", "\"", "m", "e", "s", "s", "a", "g", "e", "\"", ":", "{", "\"", "s", "t", "o", "p", "_", "r", "e", "a", "s", "o", "n", "\"", ":", "\"", "e", "n", "d", "_", "t", "u", "r", "n", "\"", ",", "\"", "c", "o", "n", "t", "e", "n", "t", "\"", ":", "[", "{", "\"", "t", "y", "p", "e", "\"", ":", "\"", "t", "e", "x", "t", "\"", ",", "\"", "t", "e", "x", "t", "\"", ":", "\"">>
zFinal == <<"\"", "}", "]", "}", "}">>
aToolUse == <<"{", "\"", "t", "y", "p", "e", "\"", ":", "\"", "a", "s", "s", "i", "s", "t", "a", "n", "t", "\"", ",", "\"", "m", "e", "s", "s", "a", "g", "e", "\"", ":", "{", "\"", "c", "o", "n", "t", "e", "n", "t", "\"", ":", "[", "{", "\"", "t", "y", "p", "e", "\"", ":", "\"", "t", "o", "o", "l", "_", "u", "s", "e", "\"", ",", "\"", "n", "a", "m", "e", "\"", ":", "\"", "l", "s", "\"", ",", "\"", "i", "n", "p", "u", "t", "\"", ":", "{", "\"", "p", "\"", ":", "\"">>
zToolUse == <<"\"", "}", "}", "]", "}", "}">>
aToolResult == <<"{", "\"", "t", "y", "p", "e", "\"", ":", "\"", "u", "s", "e", "r", "\"", ",", "\"", "m", "e", "s", "s", "a", "g", "e", "\"", ":", "{", "\"", "c", "o", "n", "t", "e", "n", "t", "\"", ":", "[", "{", "\"", "t", "y", "p", "e", "\"", ":", "\"", "t", "o", "o", "l", "_", "r", "e", "s", "u", "l", "t", "\"", ",", "\"", "c", "o", "n", "t", "e", "n", "t", "\"", ":", "\"">>
zToolResult == <<"\"", "}", "]", "}", "}">>
zToolError == <<"\"", ",", "\"", "i", "s", "_", "e", "r", "r", "o", "r", "\"", ":", "t", "r", "u", "e", "}", "]", "}", "}">>
aError == <<"{", "\"", "t", "y", "p", "e", "\"", ":", "\"", "e", "r", "r", "o", "r", "\"", ",", "\"", "e", "r", "r", "o", "r", "\"", ":", "\"">>
zError == <<"\"", "}">>
aUnknown == <<"{", "\"", "t", "y", "p", "e", "\"", ":", "\"", "p", "i", "n", "g", "\"", ",", "\"", "p", "a", "d", "\"", ":", "\"">>
zUnknown == <<"\"", "}">>

MaxLines == 2

Statuses == {200, 400, 503}

ErrorBodies == {bErrorObject, bNoErrorField, bNotJson, bErrorString, bErrorList, <<>>}

\* a text of n characters
X(n) == [i \in 1..n |-> "x"]

\* the lengths around the cut: the longest text that is kept, the shortest
\* that is cut
TextLengths == {TruncLimit, TruncLimit + 1}

ThinkingLine(n) == DataPrefix \o aThinking \o X(n) \o zThinking

FinalLine(n) == DataPrefix \o aFinal \o X(n) \o zFinal

ToolUseLine(n) == DataPrefix \o aToolUse \o X(n) \o zToolUse

ToolResultLine(n) == DataPrefix \o aToolResult \o X(n) \o zToolResult

ToolErrorLine(n) == DataPrefix \o aToolResult \o X(n) \o zToolError

ErrorLine(n) == DataPrefix \o aError \o X(n) \o zError

UnknownLine(n) == DataPrefix \o aUnknown \o X(n) \o zUnknown

LongLines ==
    UNION {{ThinkingLine(n), FinalLine(n), ToolUseLine(n), ToolResultLine(n), ToolErrorLine(n),
            ErrorLine(n), UnknownLine(n), X(n)} : n \in TextLengths}

ShortLines ==
    {DataPrefix \o p : p \in {pInit, pInitNoId, pThinking, pFinal, pToolResult, pToolError,
                              pResult, pError, pPing, pPartial, pPingRest, pNumber, pBadItem,
                              pNoContent}}
      \cup {lKeepalive, lBlank, lBarePing, <<>>, <<"BADBYTE">>}

\* the lines of the streams of Spec: the short ones and one long stray line
EventLines == ShortLines \cup {X(TruncLimit + 1)}

\* the lines of the streams of SpecLong: the long ones and the start of a
\* payload
TruncationLines == LongLines \cup {DataPrefix \o pPartial}

\* the payloads the server may cut in two, and every line that carries a
\* whole one or one of its two parts
SplitPayloads == {pPing, pDataError}

SplitLines ==
    UNION {{DataPrefix \o SubSeq(p, 1, k) : k \in 1..Len(p)}
             \cup {DataPrefix \o SubSeq(p, k + 1, Len(p)) : k \in 1..(Len(p) - 1)}
           : p \in SplitPayloads}

(***************************************************************************)
(* The generator pipe() returns, driven by its consumer.                   *)
(*   status, body  the response of requests.post                           *)
(*   read          the lines iter_lines() has handed out so far            *)
(*   produced      produced[i]: the fragments the pass on read[i] yields   *)
(*   buffers       buffers[i]: the buffer the pass on read[i] leaves       *)
(*   buffer        the local variable buffer                               *)
(*   pending       the fragments the pass in progress has still to yield   *)
(*   out           the fragments the consumer has received                 *)
(*   demand        the consumer is inside next(): the generator runs       *)
(*   pc            "created", "streaming", "failed", "done", or "raised"   *)
(*                 once an exception has left the loop                     *)
(*   messages      body.get("messages", []), the history pipe is called    *)
(*                 with                                                    *)
(*   request       the data posted to the server, once it is posted        *)
(*   retval        the value the generator returns with                    *)
(*   turn          the number of the turn in the conversation              *)
(*   previous      the lines read in the turn before                       *)
(*   peer          the local state of a second invocation                  *)
(***************************************************************************)
\* contents of user messages
cHi == <<"h", "i">>
cMore == <<"m", "o", "r", "e">>

\* no second invocation
NoPeer == [pc |-> "absent", demand |-> FALSE, buffer |-> <<>>, pending |-> <<>>,
           out |-> <<>>, read |-> <<>>]

Init ==
    /\ status \in Statuses
    /\ body \in (IF status = 200 THEN {<<>>} ELSE ErrorBodies)
    /\ read = <<>>
    /\ produced = <<>>
    /\ buffers = <<>>
    /\ buffer = <<>>
    /\ pending = <<>>
    /\ out = <<>>
    /\ demand = FALSE
    /\ pc = "created"
    /\ messages = <<UserMessage(cHi)>>
    /\ request = NotSent
    /\ retval = <<>>
    /\ turn = 1
    /\ previous = <<>>
    /\ peer = NoPeer

\* the consumer asks for the next fragment
Pull ==
    /\ ~demand
    /\ pc # "done"
    /\ demand' = TRUE
    /\ UNCHANGED <<status, body, read, produced, buffers, buffer, pending, out, pc,
                   request, retval, others>>

\* first resumption with messages, status 200: the request is posted,
\* buffer = "" and the loop is entered
StartStream ==
    /\ demand
    /\ pc = "created"
    /\ messages # <<>>
    /\ status = 200
    /\ request' = Data(messages)
    /\ pc' = "streaming"
    /\ buffer' = <<>>
    /\ UNCHANGED <<status, body, read, produced, buffers, pending, out, demand, retval, others>>

\* first resumption with messages, any other status: the request is posted
\* and the else branch builds its message
StartFailed ==
    /\ demand
    /\ pc = "created"
    /\ messages # <<>>
    /\ status # 200
    /\ request' = Data(messages)
    /\ pc' = "failed"
    /\ pending' = <<FailureMessage(status, body)>>
    /\ UNCHANGED <<status, body, read, produced, buffers, buffer, out, demand, retval, others>>

\* a loop that runs ahead of the consumer: the next line is read whether or
\* not a fragment has been asked for
ReadLineEager(Lines) ==
    /\ pc = "streaming"
    /\ Len(read) < MaxLines
    /\ \E line \in Lines :
          \E h \in {HandleLine(buffer, line)} :
              /\ read' = Append(read, line)
              /\ produced' = Append(produced, h.frags)
              /\ buffers' = Append(buffers, h.buffer)
              /\ buffer' = h.buffer
              /\ pending' = pending \o h.frags
              /\ pc' = IF h.escaped = "none" THEN "streaming" ELSE "raised"
    /\ UNCHANGED <<status, body, out, demand, request, retval, others>>

\* iter_lines() hands out the next line and the loop body runs on it
ReadLine(Lines) ==
    /\ demand
    /\ pc = "streaming"
    /\ pending = <<>>
    /\ Len(read) < MaxLines
    /\ \E line \in Lines :
          \E h \in {HandleLine(buffer, line)} :
              /\ read' = Append(read, line)
              /\ produced' = Append(produced, h.frags)
              /\ buffers' = Append(buffers, h.buffer)
              /\ buffer' = h.buffer
              /\ pending' = h.frags
              /\ pc' = IF h.escaped = "none" THEN "streaming" ELSE "raised"
    /\ UNCHANGED <<status, body, out, demand, request, retval, others>>

\* a yield: the consumer's next() returns the fragment
Yield ==
    /\ demand
    /\ pending # <<>>
    /\ out' = Append(out, Head(pending))
    /\ pending' = Tail(pending)
    /\ demand' = FALSE
    /\ UNCHANGED <<status, body, read, produced, buffers, buffer, pc, request, retval, others>>

\* iter_lines() is exhausted: the generator returns
EndOfBody ==
    /\ demand
    /\ pc = "streaming"
    /\ pending = <<>>
    /\ pc' = "done"
    /\ demand' = FALSE
    /\ UNCHANGED <<status, body, read, produced, buffers, buffer, pending, out,
                   request, retval, others>>

\* the else branch has yielded its message: the generator returns
EndOfFailure ==
    /\ demand
    /\ pc = "failed"
    /\ pending = <<>>
    /\ pc' = "done"
    /\ demand' = FALSE
    /\ UNCHANGED <<status, body, read, produced, buffers, buffer, pending, out,
                   request, retval, others>>

Next ==
    \/ Pull
    \/ StartStream
    \/ StartFailed
    \/ ReadLine(EventLines)
    \/ Yield
    \/ EndOfBody
    \/ EndOfFailure

Spec == Init /\ [][Next]_vars

\* the same generator on a stream whose payloads arrive whole or cut in two
NextSplit ==
    \/ Pull
    \/ StartStream
    \/ StartFailed
    \/ ReadLine(SplitLines)
    \/ Yield
    \/ EndOfBody
    \/ EndOfFailure

SpecSplit == Init /\ [][NextSplit]_vars

\* the same generator on a stream of lines around the 500-character cut
NextLong ==
    \/ Pull
    \/ StartStream
    \/ StartFailed
    \/ ReadLine(TruncationLines)
    \/ Yield
    \/ EndOfBody
    \/ EndOfFailure

SpecLong == Init /\ [][NextLong]_vars

(***************************************************************************)
(* The conversation: pipe is called once per turn with the history, which  *)
(* holds the replies of the turns before.                                  *)
(***************************************************************************)
MaxTurns == 2

aInit == <<"{", "\"", "t", "y", "p", "e", "\"", ":", "\"", "s", "y", "s", "t", "e", "m", "\"", ",", "\"", "s", "u", "b", "t", "y", "p", "e", "\"", ":", "\"", "i", "n", "i", "t", "\"", ",", "\"", "s", "e", "s", "s", "i", "o", "n", "_", "i", "d", "\"", ":", "\"">>
zInit == <<"\"", "}">>

\* an init event that carries the session id S
InitLine(S) == DataPrefix \o aInit \o S \o zInit

\* session ids: one of the pattern's class, one that leaves it after two
\* characters, one outside it
SessionIds == {<<"a", "b", "-", "1">>, <<"a", "b", "g", "1">>, <<"X", "Y">>}

TurnLines == {InitLine(S) : S \in SessionIds} \cup {DataPrefix \o pFinal}

\* the fragments of a stream of lines, read with the buffer buf
RECURSIVE StreamFragments(_, _)
FragmentsAfter(h, rest) == h.frags \o StreamFragments(h.buffer, rest)

StreamFragments(buf, lines) ==
    IF lines = <<>> THEN <<>>
    ELSE FragmentsAfter(HandleLine(buf, Head(lines)), Tail(lines))

\* the reply of a turn whose stream had these lines
Reply(lines) == Flatten(StreamFragments(<<>>, lines))

\* the history after a turn that surfaced a session id
OneTurn ==
    <<UserMessage(cHi),
      AssistantMessage(Reply(<<DataPrefix \o pInit, DataPrefix \o pFinal>>)),
      UserMessage(cMore)>>

\* the history after that turn and a turn that failed with status 400
FailedTurn ==
    OneTurn \o <<AssistantMessage(FailureMessage(400, bErrorObject)), UserMessage(cMore)>>

\* body.get("messages", []): no messages, a first message, later turns
Histories == {<<>>, <<UserMessage(cHi)>>, OneTurn, FailedTurn}

InitTurn ==
    /\ messages \in Histories
    /\ status \in Statuses
    /\ body = (IF status = 200 THEN <<>> ELSE bErrorObject)
    /\ read = <<>>
    /\ produced = <<>>
    /\ buffers = <<>>
    /\ buffer = <<>>
    /\ pending = <<>>
    /\ out = <<>>
    /\ demand = FALSE
    /\ pc = "created"
    /\ request = NotSent
    /\ retval = <<>>
    /\ turn = 1
    /\ previous = <<>>
    /\ peer = NoPeer

\* first resumption without messages: the generator returns the error text
\* as its return value; nothing is posted and nothing is yielded
ReturnEarly ==
    /\ demand
    /\ pc = "created"
    /\ messages = <<>>
    /\ retval' = ErrorNoMessages
    /\ pc' = "done"
    /\ demand' = FALSE
    /\ UNCHANGED <<status, body, read, produced, buffers, buffer, pending, out, request, others>>

\* the caller stores the joined fragments as the assistant's reply and calls
\* pipe again with the next user message
Invoke ==
    /\ pc = "done"
    /\ messages # <<>>
    /\ turn < MaxTurns
    /\ messages' = messages \o <<AssistantMessage(Flatten(out)), UserMessage(cMore)>>
    /\ previous' = read
    /\ turn' = turn + 1
    /\ \E s \in Statuses :
          /\ status' = s
          /\ body' = (IF s = 200 THEN <<>> ELSE bErrorObject)
    /\ read' = <<>>
    /\ produced' = <<>>
    /\ buffers' = <<>>
    /\ buffer' = <<>>
    /\ pending' = <<>>
    /\ out' = <<>>
    /\ demand' = FALSE
    /\ pc' = "created"
    /\ request' = NotSent
    /\ retval' = <<>>
    /\ UNCHANGED peer

NextTurn ==
    \/ Pull
    \/ ReturnEarly
    \/ StartStream
    \/ StartFailed
    \/ ReadLine(TurnLines)
    \/ Yield
    \/ EndOfBody
    \/ EndOfFailure
    \/ Invoke

SpecTurn == InitTurn /\ [][NextTurn]_vars

(***************************************************************************)
(* Two invocations of pipe on one Pipe object, their steps interleaved.    *)
(* The first is the generator above; the second is kept in peer.  Both     *)
(* streams have status 200.                                                *)
(***************************************************************************)
PairLines == {DataPrefix \o pPartial, DataPrefix \o pPingRest, DataPrefix \o pInit}

\* a second generator that shares its buffer with the first
SharedBuffer(mine, theirs) == theirs

\* `buffer` is a local variable of the generator's frame: a pass works on the
\* buffer of its own invocation, whatever the other invocation holds
OwnBuffer(mine, theirs) == mine

InitPair ==
    /\ status = 200
    /\ body = <<>>
    /\ read = <<>>
    /\ produced = <<>>
    /\ buffers = <<>>
    /\ buffer = <<>>
    /\ pending = <<>>
    /\ out = <<>>
    /\ demand = FALSE
    /\ pc = "created"
    /\ messages = <<UserMessage(cHi)>>
    /\ request = NotSent
    /\ retval = <<>>
    /\ turn = 1
    /\ previous = <<>>
    /\ peer = [NoPeer EXCEPT !.pc = "created"]

PeerUnchanged ==
    UNCHANGED <<status, body, read, produced, buffers, buffer, pending, out, demand, pc,
                request, retval, messages, turn, previous>>

\* the consumer of the second invocation asks for the next fragment
PeerPull ==
    /\ peer.pc \in {"created", "streaming"}
    /\ ~peer.demand
    /\ peer' = [peer EXCEPT !.demand = TRUE]
    /\ PeerUnchanged

\* first resumption of the second invocation
PeerStart ==
    /\ peer.pc = "created"
    /\ peer.demand
    /\ peer' = [peer EXCEPT !.pc = "streaming", !.buffer = <<>>]
    /\ PeerUnchanged

\* the loop body of the second invocation runs on its next line
PeerReadLine ==
    /\ peer.pc = "streaming"
    /\ peer.demand
    /\ peer.pending = <<>>
    /\ Len(peer.read) < MaxLines
    /\ \E line \in PairLines :
          \E h \in {HandleLine(OwnBuffer(peer.buffer, buffer), line)} :
              peer' = [peer EXCEPT !.read = Append(peer.read, line),
                                   !.buffer = h.buffer,
                                   !.pending = h.frags]
    /\ PeerUnchanged

\* a yield of the second invocation
PeerYield ==
    /\ peer.demand
    /\ peer.pending # <<>>
    /\ peer' = [peer EXCEPT !.out = Append(peer.out, Head(peer.pending)),
                            !.pending = Tail(peer.pending),
                            !.demand = FALSE]
    /\ PeerUnchanged

\* the stream of the second invocation is exhausted
PeerEnd ==
    /\ peer.pc = "streaming"
    /\ peer.demand
    /\ peer.pending = <<>>
    /\ peer' = [peer EXCEPT !.pc = "done", !.demand = FALSE]
    /\ PeerUnchanged

NextPair ==
    \/ Pull
    \/ StartStream
    \/ ReadLine(PairLines)
    \/ Yield
    \/ EndOfBody
    \/ PeerPull
    \/ PeerStart
    \/ PeerReadLine
    \/ PeerYield
    \/ PeerEnd

SpecPair == InitPair /\ [][NextPair]_vars

(***************************************************************************)
(* Properties.  i ranges over the lines read so far; BufBefore(i) is the   *)
(* buffer the pass on read[i] starts with.                                 *)
(***************************************************************************)
tSessionFragment == <<"s", "e", "s", "s", "i", "o", "n", "_", "i", "d", "=", "a", "b", "-", "1", "\n">>
tPingRepr == <<"{", "'", "t", "y", "p", "e", "'", ":", " ", "'", "p", "i", "n", "g", "'", "}">>
tOk == <<"o", "k">>
tBadRequest == <<" ", "-", " ", "b", "a", "d", " ", "r", "e", "q", "u", "e", "s", "t">>
tToolInputA == <<"{", "'", "p", "'", ":", " ", "'">>
tToolInputZ == <<"'", "}">>
tUnknownA == <<"{", "'", "t", "y", "p", "e", "'", ":", " ", "'", "p", "i", "n", "g", "'", ",", " ", "'", "p", "a", "d", "'", ":", " ", "'">>
tUnknownZ == <<"'", "}">>
tLs == <<"l", "s">>
tHm == <<"h", "m">>

BufBefore(i) == IF i = 1 THEN <<>> ELSE buffers[i - 1]

\* the consumer receives the fragments in the order the passes yield them
InOrder == status = 200 => out \o pending = Flatten(produced)

IsWarning(frag) == StartsWith(frag, <<"\n", "WARN", " ">>)

WarningCount(frags) == Cardinality({j \in 1..Len(frags) : IsWarning(frags[j])})

\* the truncation rule of the specification
Cut(text) == IF Len(text) > TruncLimit THEN SubSeq(text, 1, TruncLimit) \o TruncMarker ELSE text

\* json.loads fails on the buffer the pass on read[i] builds
ParseFails(i) ==
    /\ Decodable(read[i])
    /\ StartsWith(read[i], DataPrefix)
    /\ ~Loads(BufBefore(i) \o JsonStr(read[i])).ok

\* the pass on read[i] raises: the line does not decode, the buffer does not
\* parse, or the decoded value is one the dispatch cannot handle
Raises(i) ==
    /\ read[i] # <<>>
    /\ \/ ~Decodable(read[i])
       \/ ParseFails(i)
       \/ BufBefore(i) = <<>> /\ read[i] \in {DataPrefix \o pNumber, DataPrefix \o pBadItem}

\* C1 (as claimed): a payload p cut in two, p = p1 + p2, and fed as the lines
\* `data: p1`, `data: p2` is dispatched once, by the second line, with the
\* fragments the single line `data: p` gives.
OneLine(p) == HandleLine(<<>>, DataPrefix \o p).frags

C1_Reassembly ==
    \A p \in SplitPayloads : \A k \in 1..(Len(p) - 1) :
        (/\ Len(read) = 2
         /\ read[1] = DataPrefix \o SubSeq(p, 1, k)
         /\ read[2] = DataPrefix \o SubSeq(p, k + 1, Len(p)))
        => /\ produced[2] = OneLine(p)
           /\ \A j \in 1..Len(produced[1]) : \A m \in 1..Len(OneLine(p)) :
                  produced[1][j] # OneLine(p)[m]

\* C2 (as claimed): when the buffer does not parse after a `data: ` line has
\* been appended, the pass yields no fragment and the buffer keeps what has
\* been appended.
C2_SilentRetention ==
    \A i \in 1..Len(read) :
        ParseFails(i) => /\ produced[i] = <<>>
                         /\ buffers[i] = BufBefore(i) \o JsonStr(read[i])

\* What the pass on read[i] yields for a line whose text has n characters;
\* cutAll says whether final-answer text and tool-error content are cut too.
ToolInputRepr(n) == tToolInputA \o X(n) \o tToolInputZ

UnknownRepr(n) == tUnknownA \o X(n) \o tUnknownZ

Rendering(i, n, cutAll) ==
    /\ read[i] = ThinkingLine(n) => produced[i] = <<ThinkingText(Cut(X(n)))>>
    /\ read[i] = FinalLine(n)
         => produced[i] = <<ThinkingClose, FinalText(IF cutAll THEN Cut(X(n)) ELSE X(n))>>
    /\ read[i] = ToolUseLine(n) => produced[i] = <<ToolUseText(tLs, Cut(ToolInputRepr(n)))>>
    /\ read[i] = ToolResultLine(n) => produced[i] = <<ToolResultText(Cut(X(n)))>>
    /\ read[i] = ToolErrorLine(n)
         => produced[i] = <<ToolErrorText(IF cutAll THEN Cut(X(n)) ELSE X(n))>>
    /\ read[i] = ErrorLine(n) => produced[i] = <<ThinkingClose, ErrorText(Cut(X(n)))>>
    /\ read[i] = UnknownLine(n) => produced[i] = <<FallbackText(Cut(UnknownRepr(n)))>>
    /\ read[i] = X(n) => produced[i] = <<FallbackText(Cut(X(n)))>>

C4_ExceptionsCaught ==
    /\ pc # "raised"
    /\ (Len(read) >= 1 /\ pc # "done") => pc = "streaming"
    /\ \A i \in 1..Len(read) :
           Raises(i) => /\ WarningCount(produced[i]) = 1
                        /\ IsWarning(produced[i][Len(produced[i])])

C4_Witness ==
    /\ Len(read) = 2
    /\ read[1] = DataPrefix \o pBadItem
    /\ read[2] = DataPrefix \o pPing
    /\ Len(produced[1]) = 2
    /\ out = produced[1] \o <<FallbackText(tPingRepr)>>
    /\ pc = "done"

\* the lines that yield nothing
SilentAsClaimed == {<<>>, lBlank, DataPrefix \o pResult}

SilentLines == SilentAsClaimed \cup {DataPrefix \o pInitNoId, DataPrefix \o pNoContent}

IsErrorEvent(i) ==
    /\ BufBefore(i) = <<>>
    /\ read[i] \in {DataPrefix \o pError} \cup {ErrorLine(n) : n \in TextLengths}

ErrorsVisible ==
    /\ (status # 200 /\ pc = "done") => Len(out) >= 1
    /\ (status = 200 /\ pc = "done") => out = Flatten(produced)
    /\ \A i \in 1..Len(read) : (Raises(i) \/ IsErrorEvent(i)) => produced[i] # <<>>

\* C5 (as claimed): every error yields at least one fragment, and only
\* result events and blank lines yield none.
C5_OnlyResultAndBlankSilent ==
    /\ ErrorsVisible
    /\ \A i \in 1..Len(read) : produced[i] = <<>> => read[i] \in SilentAsClaimed

\* C5 (amended): every error (a status other than 200, a line that fails to
\* decode or to parse, an exception of the dispatch, an error event) yields
\* at least one fragment; the lines that yield none are result events, blank
\* and empty lines, init events without a session id, and assistant or user
\* events without a content item to render.
C5_ErrorsVisible ==
    /\ ErrorsVisible
    /\ \A i \in 1..Len(read) : produced[i] = <<>> => read[i] \in SilentLines

C5_Witness ==
    /\ Len(read) = 2
    /\ read[1] = DataPrefix \o pInitNoId
    /\ read[2] = DataPrefix \o pPartial
    /\ produced[1] = <<>>
    /\ Len(out) = 1
    /\ pc = "done"

\* C6: with a status other than 200 no line is read and exactly one fragment
\* is yielded: the status code, followed by the body's error field when the
\* body is a JSON object that has one, and by nothing for any other body.
StatusDigits(status_code) ==
    IF status_code = 400 THEN <<"4", "0", "0">> ELSE <<"5", "0", "3">>

C6_FailureFragment ==
    status # 200 =>
        /\ read = <<>>
        /\ produced = <<>>
        /\ buffer = <<>>
        /\ Len(out) <= 1
        /\ pc = "done" => out = <<StatusMessage \o StatusDigits(status)
                                    \o (IF body = bErrorObject THEN tBadRequest ELSE <<>>)>>

C6_Witness ==
    /\ status = 400
    /\ body = bErrorObject
    /\ pc = "done"
    /\ Len(out) = 1

\* C7: an assistant event with stop_reason end_turn yields the closing
\* marker first and then its text without the thinking glyph, whatever was
\* read before it, and the consumer receives them in that order.
C7_CloseBeforeFinalText ==
    /\ InOrder
    /\ \A i \in 1..Len(read) :
           (BufBefore(i) = <<>> /\ read[i] = DataPrefix \o pFinal)
               => produced[i] = <<ThinkingClose, <<"\n">> \o tOk>>

C7_Witness ==
    /\ Len(read) = 1
    /\ read[1] = DataPrefix \o pFinal
    /\ out = <<ThinkingClose, <<"\n">> \o tOk>>

\* C8: an init event with session id S yields `session_id=S` and then the
\* opening marker, which the consumer receives before any fragment of a
\* later line; an init event without a session id yields neither.
C8_SessionThenOpen ==
    /\ InOrder
    /\ \A i \in 1..Len(read) :
           /\ (BufBefore(i) = <<>> /\ read[i] = DataPrefix \o pInit)
                => produced[i] = <<tSessionFragment, ThinkingOpen>>
           /\ read[i] = DataPrefix \o pInitNoId
                => \A j \in 1..Len(produced[i]) :
                       /\ ~StartsWith(produced[i][j], SessionTag)
                       /\ produced[i][j] # ThinkingOpen

C8_Witness ==
    /\ Len(read) = 2
    /\ read[1] = DataPrefix \o pInit
    /\ read[2] = DataPrefix \o pThinking
    /\ Len(out) = 4
    /\ out[1] = tSessionFragment
    /\ out[2] = ThinkingOpen
    /\ out[3] = ThinkingText(tHm)

\* C9: an event of an unknown type yields exactly one fallback fragment with
\* the text of the event, raises nothing, and leaves the generator ready for
\* the next line, which is dispatched as usual.
C9_UnknownEventFallback ==
    /\ pc # "raised"
    /\ \A i \in 1..Len(read) :
           (BufBefore(i) = <<>> /\ read[i] = DataPrefix \o pPing)
           => /\ produced[i] = <<FallbackText(tPingRepr)>>
              /\ buffers[i] = <<>>
              /\ (i < Len(read) /\ read[i + 1] = DataPrefix \o pInit)
                   => produced[i + 1] = <<tSessionFragment, ThinkingOpen>>

C9_Witness ==
    /\ Len(read) = 2
    /\ read[1] = DataPrefix \o pPing
    /\ read[2] = DataPrefix \o pInit
    /\ Len(out) = 3
    /\ out[1] = FallbackText(tPingRepr)

\* C10: a line that does not start with `data: ` is never parsed (the buffer
\* is left as it was); it yields one stray-output fragment, cut at 500
\* characters, when it is not blank and nothing when it is blank.
Blank(line) == \A j \in 1..Len(line) : line[j] \in {" ", "\t"}

C10_LineFilter ==
    \A i \in 1..Len(read) :
        (Decodable(read[i]) /\ ~StartsWith(read[i], DataPrefix))
        => /\ buffers[i] = BufBefore(i)
           /\ produced[i] = IF Blank(read[i]) THEN <<>>
                            ELSE <<<<"\n", "POO", " ">> \o Cut(read[i]) \o <<"\n">>>>

C10_Witness ==
    /\ Len(read) = 2
    /\ read[1] = lBarePing
    /\ read[2] = lBlank
    /\ out = <<<<"\n", "POO", " ">> \o lBarePing \o <<"\n">>>>
    /\ pc = "done"

\* the assistant messages before the last message that hold a session id
WithSessionId(msgs) ==
    {i \in 1..(Len(msgs) - 1) :
        msgs[i].role = "assistant" /\ SessionMatch(msgs[i].content) # NoSessionId}

Latest(S) == CHOOSE x \in S : \A y \in S : y <= x

\* C11 (as claimed): the request carries the session id of the most recent
\* prior assistant message that holds one, also when a more recent assistant
\* message holds none, and carries no session id only when no prior
\* assistant message holds one.
C11_LatestSessionId ==
    request.sent =>
        request = IF WithSessionId(messages) = {} THEN Posted(NoSessionId)
                  ELSE Posted(SessionMatch(messages[Latest(WithSessionId(messages))].content))

\* C12 (as claimed): when the stream of the turn before surfaced the session
\* id S of its init event, the request of this turn carries exactly S,
\* whatever string S is.
C12_SessionRoundTrip ==
    \A S \in SessionIds :
        (/\ turn >= 2
         /\ request.sent
         /\ previous # <<>>
         /\ previous[1] = InitLine(S)
         /\ \A j \in 2..Len(previous) : previous[j] = DataPrefix \o pFinal)
        => request = Posted(S)

\* C20 (as claimed): called without messages, pipe posts no request and the
\* consumer receives the text `Error: No messages provided`.
C20_NoMessagesError ==
    (messages = <<>> /\ pc = "done") => /\ request = NotSent
                                       /\ out = <<ErrorNoMessages>>

\* C13: the generator hands over one fragment per pull and then waits (a
\* fragment is appended to the consumer's sequence only on demand, which it
\* uses up); the fragments arrive in the order of the lines and, within a
\* line, of the content items; and nothing is done ahead of demand: the
\* request is posted and a line is read only while a pull is outstanding and
\* every fragment produced so far has been handed over.
tToolInputOne == <<"{", "'", "p", "'", ":", " ", "1", "}">>

OnDemand ==
    /\ Len(out') <= Len(out) + 1
    /\ out' # out => (demand /\ ~demand' /\ out' = Append(out, Head(pending)))
    /\ request' # request => demand
    /\ read' # read => (demand /\ pending = <<>> /\ out = Flatten(produced))

ItemOrder ==
    \A i \in 1..Len(read) :
        (BufBefore(i) = <<>> /\ read[i] = DataPrefix \o pThinking)
        => produced[i] = <<ThinkingText(tHm), ToolUseText(tLs, tToolInputOne)>>

C13_PullBasedInOrder == [](InOrder /\ ItemOrder) /\ [][OnDemand]_vars

C13_Witness ==
    /\ read = <<DataPrefix \o pThinking, DataPrefix \o pFinal>>
    /\ out = <<ThinkingText(tHm), ToolUseText(tLs, tToolInputOne), ThinkingClose>>
    /\ pending = <<<<"\n">> \o tOk>>
    /\ ~demand

\* the buffer a stream of lines leaves, read alone from the buffer buf
RECURSIVE BufferAlone(_, _)
BufferAlone(buf, lines) ==
    IF lines = <<>> THEN buf
    ELSE BufferAlone(HandleLine(buf, Head(lines)).buffer, Tail(lines))

\* C14: with the steps of two invocations interleaved in any order, each
\* invocation holds the buffer and has yielded (or is about to yield) the
\* fragments that its own lines give when they are read alone.
C14_InvocationsIndependent ==
    /\ out \o pending = StreamFragments(<<>>, read)
    /\ buffer = BufferAlone(<<>>, read)
    /\ peer.out \o peer.pending = StreamFragments(<<>>, peer.read)
    /\ peer.buffer = BufferAlone(<<>>, peer.read)

C14_Witness ==
    /\ read = <<DataPrefix \o pPartial>>
    /\ buffer = pPartial
    /\ peer.read = <<DataPrefix \o pPingRest>>
    /\ Len(peer.out) = 1
    /\ IsWarning(peer.out[1])
    /\ peer.buffer = pPingRest

\* C15 (as claimed): of a line that starts with `data: ` the buffer receives
\* everything after the first six characters, unchanged: when the buffer
\* does not parse it holds the remainders of the lines, and an error event
\* whose text contains `data: ` is rendered with its text whole.
tNoDataX == <<"n", "o", " ", "d", "a", "t", "a", ":", " ", "x">>

Remainder(line) == SubSeq(line, Len(DataPrefix) + 1, Len(line))

C15_PrefixStrippedOnce ==
    \A i \in 1..Len(read) :
        /\ (StartsWith(read[i], DataPrefix) /\ buffers[i] # <<>>)
             => buffers[i] = BufBefore(i) \o Remainder(read[i])
        /\ (BufBefore(i) = <<>> /\ read[i] = DataPrefix \o pDataError)
             => produced[i] = <<ThinkingClose, ErrorText(tNoDataX)>>

\* C16 (as claimed): after an assistant event with stop_reason end_turn has
\* been rendered, no later line of the stream yields the opening marker or a
\* fragment of thinking text.
IsThinkingText(frag) == StartsWith(frag, <<"\n", "ROBOT">>)

C16_NoReturnToThinking ==
    \A i \in 1..Len(read) : \A j \in (i + 1)..Len(read) :
        (BufBefore(i) = <<>> /\ read[i] = DataPrefix \o pFinal)
        => \A k \in 1..Len(produced[j]) :
               /\ produced[j][k] # ThinkingOpen
               /\ ~IsThinkingText(produced[j][k])

\* the buffer the pass on read[i] hands to json.loads
Tried(i) == BufBefore(i) \o JsonStr(read[i])

IsDataLine(i) == Decodable(read[i]) /\ StartsWith(read[i], DataPrefix)

\* C17: only a `data: ` line changes the buffer, and it empties the buffer
\* only when the buffer parses; when it does not parse, the buffer keeps
\* everything appended so far, whatever its length, and the line yields its
\* warning and nothing else, also when the line alone is a well-formed
\* event.
C17_BufferKeptUntilParse ==
    \A i \in 1..Len(read) :
        /\ buffers[i] # BufBefore(i) => IsDataLine(i)
        /\ (BufBefore(i) # <<>> /\ buffers[i] = <<>>) => (IsDataLine(i) /\ Loads(Tried(i)).ok)
        /\ ParseFails(i) => /\ buffers[i] = Tried(i)
                            /\ Len(buffers[i]) >= Len(BufBefore(i))
                            /\ produced[i] = <<WarningText(<<"JSONDecodeError">>)>>
        /\ (BufBefore(i) = pPartial /\ read[i] = DataPrefix \o pPing)
             => /\ buffers[i] = pPartial \o pPing
                /\ produced[i] = <<WarningText(<<"JSONDecodeError">>)>>

C17_Witness ==
    /\ read = <<DataPrefix \o pPartial, DataPrefix \o pPing>>
    /\ buffer = pPartial \o pPing
    /\ out = <<WarningText(<<"JSONDecodeError">>), WarningText(<<"JSONDecodeError">>)>>
    /\ pc = "done"

\* the number of fragments among the first n received that are the marker
Markers(marker, n) == Cardinality({k \in 1..n : out[k] = marker})

\* C18 (as claimed): among the fragments received so far, up to any point,
\* the closing markers never outnumber the opening markers.
C18_MarkersNested ==
    \A n \in 0..Len(out) : Markers(ThinkingClose, n) <= Markers(ThinkingOpen, n)

\* C19: a buffer that parses is emptied before the dispatch, so a dispatch
\* that raises (a JSON value that is no object, a content item that is no
\* object) leaves the buffer empty, and the next well-formed event is
\* parsed and dispatched as usual.
C19_RaiseLeavesBufferEmpty ==
    \A i \in 1..Len(read) :
        /\ (IsDataLine(i) /\ Loads(Tried(i)).ok) => buffers[i] = <<>>
        /\ (BufBefore(i) = <<>> /\ read[i] \in {DataPrefix \o pNumber, DataPrefix \o pBadItem})
             => /\ produced[i] # <<>>
                /\ IsWarning(produced[i][Len(produced[i])])
                /\ buffers[i] = <<>>
                /\ (i < Len(read) /\ read[i + 1] = DataPrefix \o pPing)
                     => produced[i + 1] = <<FallbackText(tPingRepr)>>

C19_Witness ==
    /\ read = <<DataPrefix \o pNumber, DataPrefix \o pPing>>
    /\ Len(out) = 2
    /\ IsWarning(out[1])
    /\ out[2] = FallbackText(tPingRepr)
    /\ buffer = <<>>
    /\ pc = "done"
====
